---------------------------- MODULE Spec2Model ----------------------------
(***************************************************************************)
(* Model of the Monte Carlo shot-group simulator and lookup-table builder  *)
(* (src/simulate_es_mr.py) and of the standardisation step of the          *)
(* distribution analysis (src/analyze_mr_distribution.py).                 *)
(*                                                                         *)
(* Numbers.  The program computes in IEEE float64: every operation yields  *)
(* the exact result rounded to the nearest representable value, ties to    *)
(* even.  The model keeps that rule with a small format: a number is an    *)
(* integer v standing for v / Grid, and every operation rounds its exact   *)
(* result to Precision significant bits (and to the grid).  nan and +-inf  *)
(* are three distinguished values.  The random stream yields values of     *)
(* magnitude 0.5 .. 2, where no result of the model underflows the grid,   *)
(* as no result of the program underflows float64 for a standard normal.   *)
(*                                                                         *)
(* Random stream.  numpy's Generator is modelled as a deterministic        *)
(* stream per seed: rng = [seed0, pos], the value at position pos of the   *)
(* stream seeded with seed0 is StandardNormal(seed0, pos), and a draw of k *)
(* values advances pos by k.  The stream takes few values, so that         *)
(* degenerate groups (all shots equal) do occur.                           *)
(*                                                                         *)
(* Table.  An ES value e of the lookup table stands for e / ESScale, a     *)
(* cell c for c / CellScale (4 decimals); the product ES * ratio and its   *)
(* decimal rounding are computed exactly.                                  *)
(***************************************************************************)
EXTENDS Integers, Sequences, FiniteSets, TLC

(* ------------------------------ bounds --------------------------------- *)
\* largest n_shots tried
MaxShots == 3
\* largest n_simulations tried in direct calls, and the small table runs
MaxGroups == 3
\* n_simulations of the large table run
ManyGroups == 22
\* largest batch_size tried in direct calls
MaxBatch == 3
\* ES values of a table run are 0.1 .. MaxESTenths / 10
MaxESTenths == 2
\* longest es_values list of a table run
MaxESValues == 2
\* longest sample handed to normalize_data
MaxData == 3

(* --------------------------- number formats ---------------------------- *)
Grid == 1024
Precision == 5
ESScale == 100
CellScale == 10000
NaN == -999999999
Inf == 999999999
NegInf == -999999998

DefaultSeed == 42
DefaultBatchSize == 50000

IsFinite(x) == x # NaN /\ x # Inf /\ x # NegInf

Min(a, b) == IF a <= b THEN a ELSE b

\* a / b rounded half to even (a >= 0, b > 0)
RoundHalfEven(a, b) ==
    LET q == a \div b
        r == a % b
    IN  IF 2 * r < b THEN q
        ELSE IF 2 * r > b THEN q + 1
        ELSE IF q % 2 = 0 THEN q ELSE q + 1

RECURSIVE Pow2(_)
Pow2(e) == IF e = 0 THEN 1 ELSE 2 * Pow2(e - 1)

\* the binary exponent at which num / den has Precision significant bits
RECURSIVE Exponent(_, _, _)
Exponent(num, den, e) ==
    IF num < den * Pow2(Precision) * Pow2(e) THEN e ELSE Exponent(num, den, e + 1)

\* num / den >= 0 rounded to the nearest number of the format, ties to even
RoundTo(num, den) ==
    LET q == Pow2(Exponent(num, den, 0))
    IN  RoundHalfEven(num, den * q) * q

\* x rounded to the format
Fl(x) == IF x >= 0 THEN RoundTo(x, 1) ELSE 0 - RoundTo(0 - x, 1)

FAdd(a, b) == Fl(a + b)
FSub(a, b) == Fl(a - b)
FMul(a, b) ==
    LET v == a * b
    IN  IF v >= 0 THEN RoundTo(v, Grid) ELSE 0 - RoundTo(0 - v, Grid)

\* a / b of numpy: x / 0 is +-inf, 0 / 0 is nan (a warning, no exception)
FDiv(a, b) ==
    IF ~ IsFinite(a) \/ ~ IsFinite(b) THEN NaN
    ELSE IF b = 0 THEN (IF a = 0 THEN NaN ELSE IF a > 0 THEN Inf ELSE NegInf)
    ELSE IF (a >= 0) = (b > 0) THEN RoundTo((IF a >= 0 THEN a ELSE 0 - a) * Grid,
                                            IF b > 0 THEN b ELSE 0 - b)
    ELSE 0 - RoundTo((IF a >= 0 THEN a ELSE 0 - a) * Grid, IF b > 0 THEN b ELSE 0 - b)

RECURSIVE IsqrtIter(_, _, _)
IsqrtIter(x, lo, hi) ==
    IF lo >= hi THEN lo
    ELSE LET mid == (lo + hi + 1) \div 2
         IN  IF mid * mid <= x THEN IsqrtIter(x, mid, hi)
             ELSE IsqrtIter(x, lo, mid - 1)

\* np.sqrt: the root of x / Grid, rounded to the format (one guard bit and a
\* sticky bit decide the rounding)
FSqrt(x) ==
    LET y == 4 * x * Grid
        r == IsqrtIter(y, 0, 46340)
    IN  RoundTo(2 * r + (IF r * r = y THEN 0 ELSE 1), 4)

\* np.add.reduce over a short axis: left to right, rounding each partial sum
RECURSIVE FSum(_, _)
FSum(s, acc) == IF s = <<>> THEN acc ELSE FSum(Tail(s), FAdd(acc, Head(s)))

\* ndarray.mean over one axis: the sum divided by the count; the mean of an
\* empty axis is nan
Mean(s) == IF Len(s) = 0 THEN NaN ELSE FDiv(FSum(s, 0), Len(s) * Grid)

RECURSIVE SumSeq(_)
SumSeq(s) == IF s = <<>> THEN 0 ELSE Head(s) + SumSeq(Tail(s))

RECURSIVE Concatenate(_)
Concatenate(chunks) ==
    IF chunks = <<>> THEN <<>> ELSE Head(chunks) \o Concatenate(Tail(chunks))

(* ---------------------------- random stream ---------------------------- *)
\* the values the stream takes: -0.75, 1.375, 0.5
Values == << -768, 1408, 512 >>

\* the value at position k of the stream seeded with s
StandardNormal(s, k) ==
    Values[(((3 * s + 4 * k + 4 * s * k + 4 * k * k * k) % 23) % 3) + 1]

\* np.random.default_rng(seed + n_shots)
DefaultRng(seed, n_shots) == [seed0 |-> seed + n_shots, pos |-> 0]

\* The generator a call of simulate_groups starts from: a fresh one, whatever
\* generator an earlier call left behind.
CallRngBad(old, seed, n_shots) ==
    [seed0 |-> seed + n_shots, pos |-> IF old.seed0 = seed + n_shots THEN old.pos ELSE 0]
CallRng(old, seed, n_shots) == DefaultRng(seed, n_shots)

\* The generator a batch draws from: the call's one generator, carried from
\* batch to batch.
BatchRngBad(r) == [r EXCEPT !.pos = 0]
BatchRng(r) == r

\* rng.standard_normal((batch_n, n_shots, 2)): values in C order
DrawShots(r, batch_n, n) ==
    [g \in 1..batch_n |->
        [i \in 1..n |->
            << StandardNormal(r.seed0, r.pos + 2 * ((g - 1) * n + (i - 1))),
               StandardNormal(r.seed0, r.pos + 2 * ((g - 1) * n + (i - 1)) + 1) >>]]

Advance(r, batch_n, n) == [r EXCEPT !.pos = r.pos + 2 * batch_n * n]

(* --------------------------- group statistics -------------------------- *)
\* np.sqrt(((p - q) ** 2).sum()): the Euclidean distance of two points
Distance(p, q) ==
    LET dx == FSub(p[1], q[1])
        dy == FSub(p[2], q[2])
    IN  FSqrt(FAdd(FMul(dx, dx), FMul(dy, dy)))

\* shots.mean(axis=1): the centre of impact of one group
Center(group) ==
    << Mean([i \in 1..Len(group) |-> group[i][1]]),
       Mean([i \in 1..Len(group) |-> group[i][2]]) >>

\* distances_from_center.mean(axis=1) for one group
MeanRadius(group) ==
    IF Len(group) = 0 THEN NaN
    ELSE LET c == Center(group)
         IN  Mean([i \in 1..Len(group) |-> Distance(group[i], c)])

SetMax(S) == CHOOSE m \in S : \A x \in S : x <= m

\* pairwise_dist.max(axis=(1, 2)) for one group: all ordered pairs
ExtremeSpread(group) ==
    SetMax({ Distance(group[i], group[j]) : i, j \in 1..Len(group) })

\* n_batches = (n_simulations + batch_size - 1) // batch_size
NBatchesBad(n_simulations, batch_size) == n_simulations \div batch_size
NBatches(n_simulations, batch_size) ==
    (n_simulations + batch_size - 1) \div batch_size

\* return np.concatenate(all_es), np.concatenate(all_mr)
ReturnValueBad(es_chunks, mr_chunks) ==
    << Concatenate(mr_chunks), Concatenate(es_chunks) >>
ReturnValue(es_chunks, mr_chunks) ==
    << Concatenate(es_chunks), Concatenate(mr_chunks) >>

(* ------------------------ compute_ratio_percentiles --------------------- *)
\* es, mr = simulate_groups(...): the pair is unpacked in the order returned
Unpack(pair) == [es |-> pair[1], mr |-> pair[2]]

\* ratios = mr / es, element by element
Ratios(mr, es) == [i \in 1..Len(mr) |-> FDiv(mr[i], es[i])]

RECURSIVE Insert(_, _)
Insert(x, s) ==
    IF s = <<>> THEN << x >>
    ELSE IF x <= Head(s) THEN << x >> \o s
    ELSE << Head(s) >> \o Insert(x, Tail(s))

RECURSIVE Sort(_)
Sort(s) == IF s = <<>> THEN <<>> ELSE Insert(Head(s), Sort(Tail(s)))

\* numpy's linear interpolation a + (b - a) * t, t = tnum / 100, of two
\* neighbours a <= b of the sorted sample: inf - inf and inf * 0 are nan
Lerp(a, b, tnum) ==
    IF IsFinite(a) /\ IsFinite(b)
    THEN LET v == a * 100 + (b - a) * tnum
         IN  IF v >= 0 THEN RoundTo(v, 100) ELSE 0 - RoundTo(0 - v, 100)
    ELSE IF IsFinite(a) /\ b = Inf /\ tnum > 0 /\ tnum < 50 THEN Inf
    ELSE NaN

\* np.percentile(sample, p): nan if the sample holds a nan, else the linear
\* interpolation at index p / 100 * (N - 1) of the sorted sample
Percentile(sample, p) ==
    LET N == Len(sample)
        sorted == Sort(sample)
        v == p * (N - 1)
        lo == v \div 100
        hi == Min(lo + 1, N - 1)
    IN  IF \E i \in 1..N : sample[i] = NaN THEN NaN
        ELSE Lerp(sorted[lo + 1], sorted[hi + 1], v % 100)

\* return p5, p50, p95
RatioPercentiles(sample) ==
    << Percentile(sample, 5), Percentile(sample, 50), Percentile(sample, 95) >>

(* ---------------------------- generate_table --------------------------- *)
\* f"{es:.1f}": the digits before and after the point, es rounded to tenths
FormatOneDecimal(es) ==
    LET t == RoundHalfEven(es, ESScale \div 10)
    IN  << t \div 10, t % 10 >>

\* str(n): the decimal digits of n (n < 100)
Str(n) == IF n < 10 THEN << n >> ELSE << n \div 10, n % 10 >>

\* round(es * ratio, 4) for es > 0; nan and inf stay what they are
RoundedProductBad(es, ratio) ==
    IF ~ IsFinite(ratio) THEN ratio
    ELSE (es * ratio * CellScale) \div (ESScale * Grid)
RoundedProduct(es, ratio) ==
    IF ~ IsFinite(ratio) THEN ratio
    ELSE RoundHalfEven(es * ratio * CellScale, ESScale * Grid)

\* [mr_p5, mr_p50, mr_p95]
Cell(es, triple) ==
    << RoundedProduct(es, triple[1]), RoundedProduct(es, triple[2]),
       RoundedProduct(es, triple[3]) >>

\* d[k] = v on a dict
Store(d, k, v) == (k :> v) @@ d

RangeLen(r) == r[2] - r[1]
RangeAtBad(r, i) == r[1]
RangeAt(r, i) == r[1] + i - 1

(* ---------------------------- normalize_data --------------------------- *)
\* data.std(): the root of the mean squared deviation from the mean
Std(data) ==
    LET m == Mean(data)
    IN  FSqrt(Mean([i \in 1..Len(data) |->
                       FMul(FSub(data[i], m), FSub(data[i], m))]))

\* (data - data.mean()) / data.std()
Standardize(data) ==
    LET m == Mean(data)
        sd == Std(data)
    IN  [i \in 1..Len(data) |-> FDiv(FSub(data[i], m), sd)]

(* ------------------------------- state --------------------------------- *)
VARIABLES
    caller,          \* who runs simulate_groups: "none", "direct", "table"
    pc,              \* simulate_groups: "idle", "loop", "done", "raised"
    exc,             \* the exception simulate_groups raised, or "none"
    n_shots, n_simulations, seed, batch_size,   \* its arguments
    rng,             \* its generator
    n_batches, batch_idx,
    shots,           \* the current batch
    all_es, all_mr,  \* the lists of per-batch arrays
    ret,             \* the returned pair
    runs,            \* the direct calls completed so far, oldest first
    tpc,             \* generate_table: "idle", "simulating", "building", "done"
    es_values, n_shots_range, gt_n_simulations,   \* its arguments
    idx,             \* group sizes simulated so far
    n_calls,         \* calls of simulate_groups made by generate_table
    ratios,          \* compute_ratio_percentiles: the MR/ES ratios
    ratio_percentiles,
    table,
    row, col,        \* rows begun, cells written in the current row
    data, normalized \* normalize_data: its argument and what it returned

simVars == << caller, pc, exc, n_shots, n_simulations, seed, batch_size, rng,
              n_batches, batch_idx, shots, all_es, all_mr, ret >>

tableVars == << tpc, es_values, n_shots_range, gt_n_simulations, idx, n_calls,
                ratios, ratio_percentiles, table, row, col >>

normVars == << data, normalized >>

vars == << simVars, runs, tableVars, normVars >>

Seeds == {DefaultSeed, DefaultSeed + 1}

(* --------------------------- simulate_groups --------------------------- *)
\* Lines 54-59: the generator, the two lists, the number of batches.
EnterSimulateGroups(who, ns, ng, sd, bs) ==
    /\ caller' = who
    /\ n_shots' = ns
    /\ n_simulations' = ng
    /\ seed' = sd
    /\ batch_size' = bs
    /\ rng' = CallRng(rng, sd, ns)
    /\ all_es' = <<>>
    /\ all_mr' = <<>>
    /\ shots' = <<>>
    /\ ret' = <<>>
    /\ batch_idx' = 0
    /\ IF bs = 0
       THEN /\ exc' = "ZeroDivisionError"
            /\ pc' = "raised"
            /\ n_batches' = 0
       ELSE /\ exc' = "none"
            /\ pc' = "loop"
            /\ n_batches' = NBatches(ng, bs)

\* Lines 61-88: one iteration of the batch loop.
SimulateBatch ==
    /\ pc = "loop"
    /\ batch_idx < n_batches
    /\ LET batch_start == batch_idx * batch_size
           batch_end == Min(batch_start + batch_size, n_simulations)
           batch_n == batch_end - batch_start
           r == BatchRng(rng)
           s == DrawShots(r, batch_n, n_shots)
       IN  /\ shots' = s
           /\ rng' = Advance(r, batch_n, n_shots)
           /\ all_mr' = Append(all_mr, [g \in 1..batch_n |-> MeanRadius(s[g])])
           /\ IF n_shots = 0
              THEN \* the maximum of an empty axis raises
                   /\ exc' = "ValueError"
                   /\ pc' = "raised"
                   /\ UNCHANGED << all_es, batch_idx >>
              ELSE /\ all_es' = Append(all_es, [g \in 1..batch_n |-> ExtremeSpread(s[g])])
                   /\ batch_idx' = batch_idx + 1
                   /\ UNCHANGED << exc, pc >>
    /\ UNCHANGED << caller, n_shots, n_simulations, seed, batch_size, n_batches, ret, runs,
                    tableVars, normVars >>

\* Line 90: concatenate and return; np.concatenate of no array raises.
SimulateReturn ==
    /\ pc = "loop"
    /\ batch_idx = n_batches
    /\ IF all_es = <<>>
       THEN /\ exc' = "ValueError"
            /\ pc' = "raised"
            /\ ret' = ret
       ELSE /\ exc' = exc
            /\ pc' = "done"
            /\ ret' = ReturnValue(all_es, all_mr)
    /\ UNCHANGED << caller, n_shots, n_simulations, seed, batch_size, rng,
                    n_batches, batch_idx, shots, all_es, all_mr, runs,
                    tableVars, normVars >>

(* ----------------------------- direct calls ---------------------------- *)
RunRecord ==
    [ n_shots |-> n_shots, n_simulations |-> n_simulations, seed |-> seed,
      batch_size |-> batch_size, exc |-> exc, ret |-> ret,
      drawn |-> rng.pos, batches |-> batch_idx ]

\* A caller invokes simulate_groups with arguments of its choice, and may
\* then repeat the simulation (same n_shots and n_simulations) under any seed
\* and batch size.
CallSimulateGroups ==
    /\ caller \in {"none", "direct"}
    /\ pc = "idle"
    /\ Len(runs) < 2
    /\ \E ns \in 0..MaxShots, ng \in 0..MaxGroups, sd \in Seeds, bs \in 0..MaxBatch :
          /\ runs # <<>> => (ns = runs[1].n_shots /\ ng = runs[1].n_simulations)
          /\ EnterSimulateGroups("direct", ns, ng, sd, bs)
    /\ UNCHANGED << runs, tableVars, normVars >>

\* The call is over (returned or raised); the caller keeps what it got.
FinishDirectCall ==
    /\ caller = "direct"
    /\ pc \in {"done", "raised"}
    /\ runs' = Append(runs, RunRecord)
    /\ pc' = "idle"
    /\ UNCHANGED << caller, exc, n_shots, n_simulations, seed, batch_size, rng,
                    n_batches, batch_idx, shots, all_es, all_mr, ret,
                    tableVars, normVars >>

(* ---------------------------- generate_table --------------------------- *)
ESDomain == { (ESScale \div 10) * k : k \in 1..MaxESTenths }

ESLists == UNION { [1..len -> ESDomain] : len \in 1..MaxESValues }

Ranges == { << a, b >> : a \in 2..MaxShots, b \in 3..(MaxShots + 1) } \cap
          { r \in (2..MaxShots) \X (3..(MaxShots + 1)) : r[1] < r[2] }

\* Lines 129-132: generate_table is called with ES values of one decimal,
\* group sizes >= 2 and a positive number of simulations.
CallGenerateTable ==
    /\ caller = "none"
    /\ tpc = "idle"
    /\ \E esv \in ESLists, r \in Ranges, ng \in (1..MaxGroups) \cup {ManyGroups} :
          /\ es_values' = esv
          /\ n_shots_range' = r
          /\ gt_n_simulations' = ng
    /\ caller' = "table"
    /\ tpc' = "simulating"
    /\ idx' = 0
    /\ n_calls' = 0
    /\ ratio_percentiles' = <<>>
    /\ UNCHANGED << pc, exc, n_shots, n_simulations, seed, batch_size, rng, n_batches,
                    batch_idx, shots, all_es, all_mr, ret, runs, ratios, table, row, col,
                    normVars >>

\* Lines 134-140 and 103: the next group size is handed to
\* compute_ratio_percentiles, which calls simulate_groups(n, n_simulations)
\* with the default seed and batch size.
TableSimulate ==
    /\ caller = "table"
    /\ tpc = "simulating"
    /\ pc = "idle"
    /\ idx < RangeLen(n_shots_range)
    /\ EnterSimulateGroups("table", RangeAt(n_shots_range, idx + 1), gt_n_simulations,
                           DefaultSeed, DefaultBatchSize)
    /\ n_calls' = n_calls + 1
    /\ ratios' = <<>>
    /\ UNCHANGED << runs, tpc, es_values, n_shots_range, gt_n_simulations, idx,
                    ratio_percentiles, table, row, col, normVars >>

\* Lines 103-110 and 140: the returned pair is unpacked, the ratios and
\* their percentiles are computed and stored under the group size.
ReduceRatios ==
    /\ caller = "table"
    /\ tpc = "simulating"
    /\ pc = "done"
    /\ LET got == Unpack(ret)
           r == Ratios(got.mr, got.es)
       IN  /\ ratios' = r
           /\ ratio_percentiles' = Store(ratio_percentiles, n_shots, RatioPercentiles(r))
    /\ idx' = idx + 1
    /\ pc' = "idle"
    /\ UNCHANGED << caller, exc, n_shots, n_simulations, seed, batch_size, rng, n_batches,
                    batch_idx, shots, all_es, all_mr, ret, runs, tpc, es_values,
                    n_shots_range, gt_n_simulations, n_calls, table, row, col, normVars >>

\* Lines 146-147: every group size is simulated; the table starts empty.
TableBegin ==
    /\ tpc = "simulating"
    /\ pc = "idle"
    /\ idx = RangeLen(n_shots_range)
    /\ tpc' = "building"
    /\ table' = <<>>
    /\ row' = 0
    /\ col' = 0
    /\ UNCHANGED << simVars, runs, es_values, n_shots_range, gt_n_simulations, idx,
                    n_calls, ratios, ratio_percentiles, normVars >>

\* Lines 149-151: the next ES value opens its row, an empty dict under its key.
TableRow ==
    /\ tpc = "building"
    /\ row = 0 \/ col = RangeLen(n_shots_range)
    /\ row < Len(es_values)
    /\ table' = Store(table, FormatOneDecimal(es_values[row + 1]), <<>>)
    /\ row' = row + 1
    /\ col' = 0
    /\ UNCHANGED << simVars, runs, tpc, es_values, n_shots_range, gt_n_simulations, idx,
                    n_calls, ratios, ratio_percentiles, normVars >>

\* Lines 153-161: the next cell of the row.
TableCell ==
    /\ tpc = "building"
    /\ row >= 1
    /\ col < RangeLen(n_shots_range)
    /\ LET es == es_values[row]
           es_str == FormatOneDecimal(es)
           n == RangeAt(n_shots_range, col + 1)
       IN  table' = [table EXCEPT ![es_str] =
                        Store(table[es_str], Str(n), Cell(es, ratio_percentiles[n]))]
    /\ col' = col + 1
    /\ UNCHANGED << simVars, runs, tpc, es_values, n_shots_range, gt_n_simulations, idx,
                    n_calls, ratios, ratio_percentiles, row, normVars >>

\* Line 163: return table.
TableReturn ==
    /\ tpc = "building"
    /\ row = Len(es_values)
    /\ col = RangeLen(n_shots_range)
    /\ tpc' = "done"
    /\ UNCHANGED << simVars, runs, es_values, n_shots_range, gt_n_simulations, idx,
                    n_calls, ratios, ratio_percentiles, table, row, col, normVars >>

(* ---------------------------- normalize_data --------------------------- *)
Samples == UNION { [1..len -> { Values[i] : i \in 1..Len(Values) }] : len \in 1..MaxData }

\* Lines 70-72: normalize_data is called on a sample and returns an array; no
\* statement of it raises (a division by zero is a numpy warning).
NormalizeData ==
    /\ caller = "none"
    /\ \E d \in Samples :
          /\ data' = d
          /\ normalized' = [exc |-> "none", value |-> Standardize(d)]
    /\ caller' = "analysis"
    /\ UNCHANGED << pc, exc, n_shots, n_simulations, seed, batch_size, rng, n_batches,
                    batch_idx, shots, all_es, all_mr, ret, runs, tableVars >>

Init ==
    /\ caller = "none"
    /\ pc = "idle"
    /\ exc = "none"
    /\ n_shots = 0
    /\ n_simulations = 0
    /\ seed = 0
    /\ batch_size = 0
    /\ rng = [seed0 |-> 0, pos |-> 0]
    /\ n_batches = 0
    /\ batch_idx = 0
    /\ shots = <<>>
    /\ all_es = <<>>
    /\ all_mr = <<>>
    /\ ret = <<>>
    /\ runs = <<>>
    /\ tpc = "idle"
    /\ es_values = <<>>
    /\ n_shots_range = << 0, 0 >>
    /\ gt_n_simulations = 0
    /\ idx = 0
    /\ n_calls = 0
    /\ ratios = <<>>
    /\ ratio_percentiles = <<>>
    /\ table = <<>>
    /\ row = 0
    /\ col = 0
    /\ data = <<>>
    /\ normalized = [exc |-> "none", value |-> <<>>]

Next ==
    \/ CallSimulateGroups
    \/ SimulateBatch
    \/ SimulateReturn
    \/ FinishDirectCall
    \/ CallGenerateTable
    \/ TableSimulate
    \/ ReduceRatios
    \/ TableBegin
    \/ TableRow
    \/ TableCell
    \/ TableReturn
    \/ NormalizeData

Spec == Init /\ [][Next]_vars

(* ------------------------------- claims -------------------------------- *)
ValidArgs(ns, ng, bs) == ns >= 2 /\ ng >= 1 /\ bs >= 1

\* the size the k-th of nb chunks must have
ChunkSize(k, nb, ng, bs) == IF k < nb THEN bs ELSE ng - (nb - 1) * bs

\* C1: with n_shots >= 2, n_groups >= 1 and batch_size >= 1 the call does not
\* raise, runs ceil(n_groups / batch_size) batches one after the other, every
\* chunk but the last holds batch_size groups and the last holds the rest
\* (at least 1, at most batch_size), the sizes sum to n_groups, and both
\* returned arrays have n_groups entries, the chunks laid end to end in the
\* order they were generated.
C1_Batching ==
    (pc # "idle" /\ ValidArgs(n_shots, n_simulations, batch_size)) =>
        /\ pc # "raised"
        /\ n_batches * batch_size >= n_simulations
        /\ (n_batches - 1) * batch_size < n_simulations
        /\ batch_idx <= n_batches
        /\ Len(all_es) = batch_idx
        /\ Len(all_mr) = batch_idx
        /\ \A k \in 1..batch_idx :
              /\ Len(all_es[k]) = ChunkSize(k, n_batches, n_simulations, batch_size)
              /\ Len(all_mr[k]) = Len(all_es[k])
              /\ Len(all_es[k]) >= 1
              /\ Len(all_es[k]) <= batch_size
        /\ pc = "done" =>
              /\ batch_idx = n_batches
              /\ SumSeq([k \in 1..n_batches |-> Len(all_es[k])]) = n_simulations
              /\ Len(ret[1]) = n_simulations
              /\ Len(ret[2]) = n_simulations
              /\ \A k \in 1..n_batches : \A j \in 1..Len(all_es[k]) :
                    /\ ret[1][(k - 1) * batch_size + j] = all_es[k][j]
                    /\ ret[2][(k - 1) * batch_size + j] = all_mr[k][j]

\* C1 witness: a returned call of several batches whose last chunk is smaller.
C1_Witness ==
    /\ pc = "done"
    /\ ValidArgs(n_shots, n_simulations, batch_size)
    /\ n_batches >= 2
    /\ Len(all_es[n_batches]) < batch_size

\* C2 (as claimed): a call with n_shots < 2, n_groups < 1 or batch_size < 1
\* raises, and has then drawn no random value and completed no batch.
C2_RejectsInvalidArguments ==
    \A i \in 1..Len(runs) :
        ~ ValidArgs(runs[i].n_shots, runs[i].n_simulations, runs[i].batch_size) =>
            /\ runs[i].exc # "none"
            /\ runs[i].drawn = 0
            /\ runs[i].batches = 0

SameStream(a, b) ==
    /\ a.seed = b.seed
    /\ a.n_shots = b.n_shots
    /\ a.n_simulations = b.n_simulations

\* the statistics of group i of a call, read off the call's stream directly:
\* group i owns positions 2 * n_shots * (i - 1) .. 2 * n_shots * i - 1
StreamGroup(sd, ns, i) ==
    [s \in 1..ns |->
        << StandardNormal(sd + ns, 2 * ns * (i - 1) + 2 * (s - 1)),
           StandardNormal(sd + ns, 2 * ns * (i - 1) + 2 * (s - 1) + 1) >>]

\* C3: two calls with the same seed, n_shots and n_groups and batch sizes
\* >= 1 return the same arrays, and group i of a call that has just returned
\* is computed from the slice of the stream that group i owns, wherever the
\* chunk boundaries fall.
C3_BatchInvariance ==
    /\ \A i, j \in 1..Len(runs) :
          (SameStream(runs[i], runs[j]) /\ runs[i].batch_size >= 1
              /\ runs[j].batch_size >= 1) =>
                 /\ runs[i].exc = runs[j].exc
                 /\ runs[i].ret = runs[j].ret
    /\ \A i \in { Len(runs) } \ { 0 } :
          (pc = "idle" /\ runs[i].exc = "none" /\ runs[i].n_shots >= 1) =>
              \A g \in 1..runs[i].n_simulations :
                  /\ runs[i].ret[1][g]
                        = ExtremeSpread(StreamGroup(runs[i].seed, runs[i].n_shots, g))
                  /\ runs[i].ret[2][g]
                        = MeanRadius(StreamGroup(runs[i].seed, runs[i].n_shots, g))

\* C3 witness: one call in a single batch, the other in several, same stream,
\* and the groups of the call are not all alike.
C3_Witness ==
    /\ Len(runs) = 2
    /\ SameStream(runs[1], runs[2])
    /\ ValidArgs(runs[1].n_shots, runs[1].n_simulations, runs[1].batch_size)
    /\ runs[1].batch_size >= runs[1].n_simulations
    /\ runs[2].batch_size >= 1
    /\ runs[2].batch_size < runs[2].n_simulations
    /\ runs[2].exc = "none"
    /\ runs[2].ret[1][1] # runs[2].ret[1][2]

\* C4: two calls with the same (seed, n_shots, n_groups, batch_size) end the
\* same way with the same arrays; a call's generator is the one seeded with
\* seed + n_shots, read from its start: a returned call has consumed exactly
\* 2 * n_shots * n_groups values whatever was called before it.
C4_Reproducibility ==
    /\ \A i, j \in 1..Len(runs) :
          (SameStream(runs[i], runs[j]) /\ runs[i].batch_size = runs[j].batch_size) =>
              /\ runs[i].exc = runs[j].exc
              /\ runs[i].ret = runs[j].ret
    /\ \A i \in 1..Len(runs) :
          runs[i].exc = "none" =>
              runs[i].drawn = 2 * runs[i].n_shots * runs[i].n_simulations
    /\ caller # "none" => rng.seed0 = seed + n_shots

\* C4 witness: the same valid call made twice, one after the other.
C4_Witness ==
    /\ Len(runs) = 2
    /\ SameStream(runs[1], runs[2])
    /\ runs[1].batch_size = runs[2].batch_size
    /\ ValidArgs(runs[1].n_shots, runs[1].n_simulations, runs[1].batch_size)
    /\ runs[2].exc = "none"
    /\ runs[2].drawn > 0

AllCoincide(group) == \A i, j \in 1..Len(group) : group[i] = group[j]

\* the batch just processed, when there is one
BatchDone == pc = "loop" /\ batch_idx >= 1

\* for every group of the batch just processed: mean radius and extreme
\* spread are numbers >= 0, the extreme spread is one of the distances over
\* the ordered pairs of shots and >= each of them, and it is 0 exactly when
\* all shots coincide
SpreadHolds ==
    BatchDone =>
        \A g \in 1..Len(shots) :
            LET es == all_es[batch_idx][g]
                mr == all_mr[batch_idx][g]
                grp == shots[g]
            IN  /\ IsFinite(mr) /\ mr >= 0
                /\ IsFinite(es) /\ es >= 0
                /\ \A i, j \in 1..Len(grp) : es >= Distance(grp[i], grp[j])
                /\ \E i, j \in 1..Len(grp) : es = Distance(grp[i], grp[j])
                /\ (es = 0) <=> AllCoincide(grp)

CellAt(i, n) == table[FormatOneDecimal(es_values[i])][Str(n)]

GroupSizes == n_shots_range[1]..(n_shots_range[2] - 1)

\* the key of a one-decimal ES value: its units digit(s) and its tenths digit
OneDecimalKey(es) == << es \div ESScale, (es % ESScale) \div (ESScale \div 10) >>

Abs(x) == IF x >= 0 THEN x ELSE 0 - x

\* c is ES * ratio rounded to 4 decimals: within half a unit of the last
\* place, and even on a tie; nan and inf stay
IsRoundedProduct(c, es, ratio) ==
    IF ~ IsFinite(ratio) THEN c = ratio
    ELSE LET exact == es * ratio * CellScale
             unit == ESScale * Grid
         IN  /\ 2 * Abs(c * unit - exact) <= unit
             /\ 2 * Abs(c * unit - exact) = unit => c % 2 = 0

\* C5: the table returned has exactly one row per ES value, under the ES
\* value's one-decimal key, each row has exactly one cell per group size,
\* under the group size's decimal key, and the cell of (ES, n) is the triple
\* of ES times the 5th, 50th and 95th ratio percentile recorded for n, each
\* rounded to 4 decimals, in that order.
C5_TableCells ==
    tpc = "done" =>
        /\ DOMAIN table = { OneDecimalKey(es_values[i]) : i \in 1..Len(es_values) }
        /\ \A i \in 1..Len(es_values) :
              LET r == table[OneDecimalKey(es_values[i])]
              IN  /\ DOMAIN r = { Str(n) : n \in GroupSizes }
                  /\ \A n \in GroupSizes :
                        /\ Len(r[Str(n)]) = 3
                        /\ \A k \in 1..3 :
                              IsRoundedProduct(r[Str(n)][k], es_values[i],
                                               ratio_percentiles[n][k])

\* C5 witness: a returned table of two ES values and two group sizes with a
\* cell that the rounding changed.
C5_Witness ==
    /\ tpc = "done"
    /\ Len(es_values) = 2
    /\ es_values[1] # es_values[2]
    /\ Cardinality(GroupSizes) = 2
    /\ \E i \in 1..2, n \in GroupSizes, k \in 1..3 :
          /\ IsFinite(CellAt(i, n)[k])
          /\ CellAt(i, n)[k] * ESScale * Grid
                # es_values[i] * ratio_percentiles[n][k] * CellScale

\* a <= b of IEEE numbers: false when either is nan
Leq(a, b) == a # NaN /\ b # NaN /\ a <= b

\* the cells of group size n are ordered within each cell and grow with ES
MonotoneColumn(n) ==
    /\ \A i \in 1..Len(es_values) :
          /\ Leq(CellAt(i, n)[1], CellAt(i, n)[2])
          /\ Leq(CellAt(i, n)[2], CellAt(i, n)[3])
    /\ \A i, j \in 1..Len(es_values) :
          es_values[i] < es_values[j] =>
              \A k \in 1..3 : Leq(CellAt(i, n)[k], CellAt(j, n)[k])

RatiosAreMrOverEs ==
    (caller = "table" /\ ratios # <<>>) =>
        /\ Len(ratios) = n_simulations
        /\ \A i \in 1..n_simulations :
              ratios[i] = FDiv(Concatenate(all_mr)[i], Concatenate(all_es)[i])

\* C8 (as claimed): simulate_groups returns (mean_radii, extreme_spreads),
\* and the reducer divides group i's mean radius by group i's extreme spread.
C8_Original ==
    /\ pc = "done" =>
          /\ ret[1] = Concatenate(all_mr)
          /\ ret[2] = Concatenate(all_es)
    /\ RatiosAreMrOverEs

\* C8 (amended): simulate_groups returns (extreme_spreads, mean_radii), the
\* reducer unpacks the pair in that order and divides group i's mean radius
\* by group i's extreme spread.
C8_ReturnOrder ==
    /\ pc = "done" =>
          /\ ret[1] = Concatenate(all_es)
          /\ ret[2] = Concatenate(all_mr)
    /\ RatiosAreMrOverEs

\* C8 witness: the reducer has divided the arrays of a simulation of several
\* groups whose ratios differ.
C8_Witness ==
    /\ caller = "table"
    /\ Len(ratios) >= 2
    /\ ratios[1] # ratios[2]
    /\ IsFinite(ratios[1]) /\ IsFinite(ratios[2])
    /\ ret[1] # ret[2]

\* C9 (as claimed): normalize_data of a sample whose elements are all equal
\* (a single element included) raises instead of returning; of any other
\* sample it returns a sample of the same length with mean 0 and standard
\* deviation 1 (here: to within Grid / 8, the format having 5 bits).
C9_Standardization ==
    caller = "analysis" =>
        IF AllCoincide(data)
        THEN normalized.exc # "none"
        ELSE /\ normalized.exc = "none"
             /\ Len(normalized.value) = Len(data)
             /\ Abs(Mean(normalized.value)) <= Grid \div 8
             /\ Abs(Std(normalized.value) - Grid) <= Grid \div 8

\* group size n, simulated with the table run's arguments, has a group whose
\* extreme spread is 0
HasDegenerateGroup(n) ==
    \E g \in 1..gt_n_simulations :
        ExtremeSpread(StreamGroup(DefaultSeed, n, g)) = 0

FirstSizes(k) == { RangeAt(n_shots_range, i) : i \in 1..k }

\* where a table run stands: while it simulates, no row or cell exists, one
\* simulation has been started for each of the group sizes reached so far and
\* the percentiles of every finished one are recorded; once it builds,
\* every group size has been simulated exactly once, no simulation is left
\* running and every group size has its percentiles
OneSimulationPerSize ==
    /\ tpc = "simulating" =>
          /\ table = <<>>
          /\ DOMAIN ratio_percentiles = FirstSizes(idx)
          /\ n_calls = IF pc = "idle" THEN idx ELSE idx + 1
    /\ tpc \in {"building", "done"} =>
          /\ pc = "idle"
          /\ n_calls = Cardinality(GroupSizes)
          /\ DOMAIN ratio_percentiles = GroupSizes

\* a step of a table run starts a simulation only while it simulates, and
\* then of a group size of the range not simulated before; a step that
\* builds the table starts none and leaves the recorded percentiles alone
SimulationsBeforeCells ==
    /\ (caller = "table" /\ n_calls' # n_calls) =>
          /\ tpc = "simulating"
          /\ n_calls' = n_calls + 1
          /\ n_shots' \in GroupSizes \ DOMAIN ratio_percentiles
    /\ tpc \in {"building", "done"} =>
          /\ n_calls' = n_calls
          /\ ratio_percentiles' = ratio_percentiles
          /\ pc' = "idle"

\* C11: in a run of generate_table exactly one simulation is performed per
\* group size of n_shots_range and none per ES value, every simulation has
\* finished and its ratio percentiles are recorded before the first cell is
\* written, and building the cells starts no simulation and does not change
\* the recorded percentiles.
C11_SimulateOncePerSize == [] OneSimulationPerSize /\ [][SimulationsBeforeCells]_vars

\* C11 witness: a returned table of two ES values and two group sizes, built
\* from two simulations.
C11_Witness ==
    /\ tpc = "done"
    /\ Len(es_values) = 2
    /\ Cardinality(GroupSizes) = 2
    /\ n_calls = 2
    /\ \A i \in 1..2, n \in GroupSizes : Len(CellAt(i, n)) = 3
=============================================================================
